---- MODULE Spec2Model ----
(***************************************************************************)
(* Model of the GCP monitoring diagnostic tool (main.go).                  *)
(*                                                                         *)
(* One run of the process: flag.Parse has stored the two flags, then       *)
(* runMain validates the project id, creates the metric client, registers  *)
(* the histogram descriptor, writes one time series, sleeps, runs the      *)
(* gcloud log query and fetches the descriptor again; main turns the       *)
(* returned error into the exit status.                                    *)
(*                                                                         *)
(* Strings built by concatenation or Sprintf are modelled as the tuple of  *)
(* their segments: "projects/" + id is <<"projects", id>>.  A Go pointer   *)
(* that may be nil is a sequence of length 0 (nil) or 1.  An error is the  *)
(* sequence of the messages wrapped around it, outermost first; <<>> is    *)
(* the nil error.                                                          *)
(***************************************************************************)
EXTENDS Integers, Sequences, FiniteSets, TLC

VARIABLES
    projectID,          \* *projectID, the --project-id flag
    monitoredResource,  \* *monitoredResource, the --monitored-resource flag
    pc,                 \* position of the run in main/runMain
    err,                \* the error runMain returns
    exitStatus,         \* <<>> while running, <<code>> once the process ended
    cancelled,          \* ctx is cancelled (os.Interrupt after NotifyContext)
    clock,              \* wall clock, in seconds
    backend,            \* the metric descriptors the monitoring service holds
    metricDesc,         \* runMain's metricDesc, as returned by registration
    gotDesc,            \* the descriptor returned by getMetricDescriptor
    steps,              \* history: the steps run, each with its outcome
    effects,            \* history: client creation, RPCs, sleep, subprocess
    stdout,             \* history: the blocks printed to standard output
    descReqs,           \* history: CreateMetricDescriptorRequests sent
    seriesReqs,         \* history: CreateTimeSeriesRequests sent
    getReqs             \* history: GetMetricDescriptorRequests sent

vars == <<projectID, monitoredResource, pc, err, exitStatus, cancelled, clock,
          backend, metricDesc, gotDesc, steps, effects, stdout, descReqs,
          seriesReqs, getReqs>>

\* ------------------------------------------------------------------ bounds

\* The clock values a run may start at, and how far time may drift on its
\* own between steps.
MaxClock == 2

\* The project ids tried: unset, the spec's example, and another one.
ProjectIDs == {"", "demo", "p2"}

\* The --monitored-resource values tried: the three supported kinds, the
\* spec's unsupported example and the empty string.
Tokens == {"generic_task", "k8s_container", "none", "invalid", ""}

\* --------------------------------------------------------------- constants

metricType == "custom.googleapis.com/test/histogram"

\* time.Sleep(5 * time.Second)
SleepSeconds == 5

\* The exit status of a Go process that ends by an unrecovered panic.
PanicExitStatus == 2

Blue == 34

\* Color.Add: the text wrapped in the colour's escape sequence.
ColorAdd(c, s) == <<"\\x1b[", c, "m", s, "\\x1b[0m">>

\* ----------------------------------------------------------- pure builders

\* "projects/" + *projectID
ParentName(pid) == <<"projects", pid>>

\* fmt.Sprintf("projects/%s/metricDescriptors/%s", *projectID, metricType)
DescriptorName(pid, type) == <<"projects", pid, "metricDescriptors", type>>

\* Mutant: the allow-list names generic_task only.
HistogramDescriptorOneResource(pid) ==
    [ name        |-> DescriptorName(pid, metricType),
      type        |-> metricType,
      labels      |-> << [key |-> "key_a", valueType |-> "STRING",
                          description |-> "some key a"] >>,
      metricKind  |-> "GAUGE",
      valueType   |-> "DISTRIBUTION",
      unit        |-> "ms",
      description |-> "test histogram",
      displayName |-> "Test Histogram Display name",
      monitoredResourceTypes |-> <<"generic_task">> ]

\* The MetricDescriptor literal of createHistogramDescriptor.
HistogramDescriptor(pid) ==
    [ name        |-> DescriptorName(pid, metricType),
      type        |-> metricType,
      labels      |-> << [key |-> "key_a", valueType |-> "STRING",
                          description |-> "some key a"] >>,
      metricKind  |-> "GAUGE",
      valueType   |-> "DISTRIBUTION",
      unit        |-> "ms",
      description |-> "test histogram",
      displayName |-> "Test Histogram Display name",
      monitoredResourceTypes |-> <<"generic_task", "k8s_container">> ]

\* The CreateMetricDescriptorRequest of createHistogramDescriptor.
DescriptorRequest(pid) ==
    [ name |-> ParentName(pid), metricDescriptor |-> HistogramDescriptor(pid) ]

\* Mutant: the overflow bucket is forgotten and the clock is read once for
\* each end of the interval.
newHistogramPointThreeBuckets(now) ==
    [ interval |-> [endTime |-> now + 1, startTime |-> now],
      value    |-> [ count |-> 2,
                     mean |-> 30,
                     sumOfSquaredDeviation |-> 15,
                     range |-> <<>>,
                     bounds |-> <<10, 50, 70>>,
                     bucketCounts |-> <<0, 1, 1>> ] ]

\* newHistogramPoint: timestamppb.Now() is read once and used for both ends
\* of the interval.
newHistogramPoint(now) ==
    [ interval |-> [endTime |-> now, startTime |-> now],
      value    |-> [ count |-> 2,
                     mean |-> 30,
                     sumOfSquaredDeviation |-> 15,
                     range |-> <<>>,
                     bounds |-> <<10, 50, 70>>,
                     bucketCounts |-> <<0, 1, 1, 0>> ] ]

\* Mutant: the switch has no failing default case.
SupportedWithDefault == Tokens

\* The cases of the switch in createHistogramTimeSeries that return no error.
Supported == {"generic_task", "k8s_container", "none"}

\* Mutant: the case "none" keeps the resource of the flag's default and the
\* k8s_container case names a fixed project.
SeriesResourceNoneAsGeneric(token, pid) ==
    CASE token \in {"generic_task", "none"} ->
           << [ type   |-> "generic_task",
                labels |-> [ project_id |-> pid,
                             location   |-> "us-central1",
                             namespace  |-> "test",
                             job        |-> "test-job",
                             task_id    |-> "test-task" ] ] >>
      [] token = "k8s_container" ->
           << [ type   |-> "k8s_container",
                labels |-> [ project_id     |-> "demo",
                             location       |-> "us-central1",
                             cluster_name   |-> "test-cluster",
                             namespace_name |-> "test-namespace",
                             pod_name       |-> "test-pod",
                             container_name |-> "test-container" ] ] >>
      [] OTHER -> <<>>

\* series.Resource after the switch on *monitoredResource (nil is <<>>).
\* The default case returns before the series is used: it keeps the nil of
\* the literal.
SeriesResource(token, pid) ==
    CASE token = "generic_task" ->
           << [ type   |-> "generic_task",
                labels |-> [ project_id |-> pid,
                             location   |-> "us-central1",
                             namespace  |-> "test",
                             job        |-> "test-job",
                             task_id    |-> "test-task" ] ] >>
      [] token = "k8s_container" ->
           << [ type   |-> "k8s_container",
                labels |-> [ project_id     |-> pid,
                             location       |-> "us-central1",
                             cluster_name   |-> "test-cluster",
                             namespace_name |-> "test-namespace",
                             pod_name       |-> "test-pod",
                             container_name |-> "test-container" ] ] >>
      [] OTHER -> <<>>

\* The TimeSeries literal of createHistogramTimeSeries with its resource set.
HistogramSeries(token, pid, now) ==
    [ metric     |-> [type |-> metricType, labels |-> [key_a |-> "value-a"]],
      metricKind |-> "GAUGE",
      valueType  |-> "DISTRIBUTION",
      points     |-> << newHistogramPoint(now) >>,
      unit       |-> "ms",
      resource   |-> SeriesResource(token, pid) ]

\* The CreateTimeSeriesRequest of createHistogramTimeSeries.
SeriesRequest(series, pid) ==
    [ name |-> ParentName(pid), timeSeries |-> << series >> ]

\* Mutant: the fetch names the project, not the descriptor.
GetRequestByParent(desc) == [ name |-> SubSeq(desc.name, 1, 2) ]

\* The GetMetricDescriptorRequest of getMetricDescriptor.
GetRequest(desc) == [ name |-> desc.name ]

\* The gcloud command line of runMain.
AuditLogCommand ==
    << "gcloud", "logging", "read",
       << "resource.type=\"audited_resource\"",
          "resource.labels.service=\"monitoring.googleapis.com\"",
          "resource.labels.method=\"google.monitoring.v3.MetricService.CreateMetricDescriptor\"",
          "protoPayload.request.metricDescriptor.type=", metricType >>,
       "--limit=2" >>

\* ------------------------------------------------- the monitoring service

\* A descriptor of another metric of the same project.
OtherDescriptor(pid) ==
    [ HistogramDescriptor(pid) EXCEPT
        !.name = DescriptorName(pid, "custom.googleapis.com/test/other"),
        !.type = "custom.googleapis.com/test/other",
        !.valueType = "INT64" ]

\* A descriptor under the histogram's name with another value shape.
ConflictingDescriptor(pid) ==
    [ HistogramDescriptor(pid) EXCEPT !.valueType = "INT64" ]

\* What the service may hold when the run starts: nothing, other metrics,
\* the histogram as an earlier run left it, or an incompatible descriptor
\* under the same name.  Names are unique in the store.
InitialBackends(pid) ==
    { s \in SUBSET { OtherDescriptor(pid), HistogramDescriptor(pid),
                     ConflictingDescriptor(pid) } :
        ~ ({HistogramDescriptor(pid), ConflictingDescriptor(pid)} \subseteq s) }

\* The descriptors the store holds under a name.
Lookup(store, name) == { d \in store : d.name = name }

\* Creation is refused when a descriptor of another shape holds the name.
CreateAccepted(store, d) ==
    \A e \in Lookup(store, d.name) :
        e.type = d.type /\ e.valueType = d.valueType /\ e.metricKind = d.metricKind

\* The store after an accepted creation.
StoreCreate(store, d) == (store \ Lookup(store, d.name)) \cup {d}

NoErr == <<>>

Running == {"createDescriptor", "createTimeSeries", "sleep", "readAuditLogs",
            "getDescriptor"}

\* ------------------------------------------------------------------- steps

Step(name, ok) == [step |-> name, ok |-> ok]

\* Mutant: the check of the project id is missing.
FlagsInvalidNever(pid, token) == FALSE

\* Mutant: the monitored-resource flag is checked with the project id, when
\* the flags are validated.
FlagsInvalidStrict(pid, token) == pid = "" \/ token \notin Supported

\* runMain, "Validate flags": only the project id is looked at.
FlagsInvalid(pid, token) == pid = ""

\* Mutant: the returned error is never checked.
AfterStepIgnoreErr(ok, next) == next

\* Mutant: the error of cmd.Run is not checked.
AfterStepUncheckedCmd(ok, next) ==
    IF ok \/ next = "getDescriptor" THEN next ELSE "returned"

\* runMain's "if err != nil { return ... }" after each call: where the run
\* goes on from.
AfterStep(ok, next) == IF ok THEN next ELSE "returned"

\* Mutant: main logs the error and returns, the os.Exit(1) is missing.
ExitStatusAlwaysZero(e) == 0

\* main: os.Exit(1) when runMain returned an error, a plain return otherwise.
ExitStatusOf(e) == IF e # NoErr THEN 1 ELSE 0

\* mustMarshalProtoText: prototext.Marshal of a nil message yields the empty
\* text and cannot fail; of any other message it may return an error, and
\* the function then panics.
MarshalOutcomes(msg) == IF msg = <<>> THEN {TRUE} ELSE BOOLEAN

\* The outcomes of an RPC: it fails once ctx is cancelled, and may fail for
\* any reason of the network or the service otherwise.
RpcOutcomes == IF cancelled THEN {FALSE} ELSE BOOLEAN

Init ==
    /\ projectID \in ProjectIDs
    /\ monitoredResource \in Tokens
    /\ pc = "validate"
    /\ err = NoErr
    /\ exitStatus = <<>>
    /\ cancelled = FALSE
    /\ clock \in 0..MaxClock
    /\ backend \in InitialBackends(projectID)
    /\ metricDesc = <<>>
    /\ gotDesc = <<>>
    /\ steps = <<>>
    /\ effects = <<>>
    /\ stdout = <<>>
    /\ descReqs = <<>>
    /\ seriesReqs = <<>>
    /\ getReqs = <<>>

\* runMain, "Validate flags".
Validate ==
    /\ pc = "validate"
    /\ IF FlagsInvalid(projectID, monitoredResource)
         THEN /\ err' = <<"--project-id is unset">>
              /\ pc' = "returned"
              /\ steps' = Append(steps, Step("Validate", FALSE))
         ELSE /\ err' = err
              /\ pc' = "newClient"
              /\ steps' = Append(steps, Step("Validate", TRUE))
    /\ UNCHANGED <<projectID, monitoredResource, exitStatus, cancelled, clock,
                   backend, metricDesc, gotDesc, effects, stdout, descReqs,
                   seriesReqs, getReqs>>

\* runMain: signal.NotifyContext and monitoring.NewMetricClient.
NewMetricClient ==
    /\ pc = "newClient"
    /\ effects' = Append(effects, "NewMetricClient")
    /\ \E ok \in BOOLEAN :
         /\ pc' = AfterStep(ok, "createDescriptor")
         /\ err' = IF ok THEN err
                   ELSE <<"create gcp monitoring client", "client error">>
    /\ UNCHANGED <<projectID, monitoredResource, exitStatus, cancelled, clock,
                   backend, metricDesc, gotDesc, steps, stdout, descReqs,
                   seriesReqs, getReqs>>

\* createHistogramDescriptor and runMain's check of its error.
CreateHistogramDescriptor ==
    /\ pc = "createDescriptor"
    /\ LET req == DescriptorRequest(projectID) IN
       /\ descReqs' = Append(descReqs, req)
       /\ effects' = Append(effects, "CreateMetricDescriptor")
       /\ \E rpcOK \in RpcOutcomes, marshalOK \in BOOLEAN :
            IF rpcOK /\ CreateAccepted(backend, req.metricDescriptor)
              THEN /\ backend' = StoreCreate(backend, req.metricDescriptor)
                   /\ IF marshalOK
                        THEN /\ stdout' = Append(stdout,
                                   << ColorAdd(Blue, "[CREATED METRIC DESCRIPTOR]"),
                                      req.metricDescriptor >>)
                             /\ metricDesc' = << req.metricDescriptor >>
                             /\ pc' = AfterStep(TRUE, "createTimeSeries")
                             /\ steps' = Append(steps, Step("RegisterDescriptor", TRUE))
                             /\ UNCHANGED <<err, exitStatus>>
                        ELSE /\ pc' = "exited"
                             /\ exitStatus' = << PanicExitStatus >>
                             /\ steps' = Append(steps, Step("RegisterDescriptor", FALSE))
                             /\ UNCHANGED <<err, stdout, metricDesc>>
              ELSE /\ marshalOK
                   /\ err' = << "create histogram descriptor",
                                "create metric descriptor", "rpc error" >>
                   /\ pc' = AfterStep(FALSE, "createTimeSeries")
                   /\ steps' = Append(steps, Step("RegisterDescriptor", FALSE))
                   /\ UNCHANGED <<backend, stdout, metricDesc, exitStatus>>
    /\ UNCHANGED <<projectID, monitoredResource, cancelled, clock, gotDesc,
                   seriesReqs, getReqs>>

\* createHistogramTimeSeries and runMain's check of its error.
CreateHistogramTimeSeries ==
    /\ pc = "createTimeSeries"
    /\ LET series == HistogramSeries(monitoredResource, projectID, clock) IN
       IF monitoredResource \notin Supported
         THEN /\ err' = << "create histogram time series",
                           "unknown monitored resource", monitoredResource >>
              /\ pc' = AfterStep(FALSE, "sleep")
              /\ steps' = Append(steps, Step("WriteSeries", FALSE))
              /\ UNCHANGED <<exitStatus, effects, stdout, seriesReqs>>
         ELSE \E marshalOK \in BOOLEAN, rpcOK \in RpcOutcomes :
                IF ~ marshalOK
                  THEN /\ ~ rpcOK
                       /\ pc' = "exited"
                       /\ exitStatus' = << PanicExitStatus >>
                       /\ steps' = Append(steps, Step("WriteSeries", FALSE))
                       /\ UNCHANGED <<err, effects, stdout, seriesReqs>>
                  ELSE /\ stdout' = Append(stdout,
                             << ColorAdd(Blue, "[CREATED TIME SERIES]"), series >>)
                       /\ seriesReqs' = Append(seriesReqs,
                                               SeriesRequest(series, projectID))
                       /\ effects' = Append(effects, "CreateTimeSeries")
                       /\ steps' = Append(steps, Step("WriteSeries", rpcOK))
                       /\ exitStatus' = exitStatus
                       /\ pc' = AfterStep(rpcOK, "sleep")
                       /\ err' = IF rpcOK THEN err
                                 ELSE << "create histogram time series",
                                         "create time series", "rpc error" >>
    /\ UNCHANGED <<projectID, monitoredResource, cancelled, clock, backend,
                   metricDesc, gotDesc, descReqs, getReqs>>

\* runMain: the [AUDIT LOGS] line and time.Sleep.
Sleep ==
    /\ pc = "sleep"
    /\ stdout' = Append(stdout, << ColorAdd(Blue, "[AUDIT LOGS]"),
                                   "showing CreateMetricDescriptor audit logs; sleeping" >>)
    /\ clock' = clock + SleepSeconds
    /\ effects' = Append(effects, "Sleep")
    /\ steps' = Append(steps, Step("Sleep", TRUE))
    /\ pc' = "readAuditLogs"
    /\ UNCHANGED <<projectID, monitoredResource, err, exitStatus, cancelled,
                   backend, metricDesc, gotDesc, descReqs, seriesReqs, getReqs>>

\* runMain: exec.Command("gcloud", ...) and cmd.Run.  The command is not
\* bound to ctx; it fails when gcloud cannot be started or exits non-zero.
ReadAuditLogs ==
    /\ pc = "readAuditLogs"
    /\ effects' = Append(effects, AuditLogCommand[1])
    /\ \E outcome \in {"ok", "launch failure", "exit status 1"} :
         /\ steps' = Append(steps, Step("ReadAuditLogs", outcome = "ok"))
         /\ pc' = AfterStep(outcome = "ok", "getDescriptor")
         /\ err' = IF outcome = "ok" THEN err
                   ELSE << "read audit logs", outcome >>
    /\ UNCHANGED <<projectID, monitoredResource, exitStatus, cancelled, clock,
                   backend, metricDesc, gotDesc, stdout, descReqs, seriesReqs,
                   getReqs>>

\* getMetricDescriptor and runMain's check of its error.  The fetched
\* descriptor (nil on error) is printed before the error is returned.
GetMetricDescriptor ==
    /\ pc = "getDescriptor"
    /\ metricDesc # <<>>
    /\ LET req == GetRequest(metricDesc[1]) IN
       /\ getReqs' = Append(getReqs, req)
       /\ effects' = Append(effects, "GetMetricDescriptor")
       /\ \E rpcOK \in RpcOutcomes :
            \E desc \in (IF rpcOK THEN { <<d>> : d \in Lookup(backend, req.name) }
                                  ELSE { <<>> }) :
              \E marshalOK \in MarshalOutcomes(desc) :
                IF ~ marshalOK
                  THEN /\ pc' = "exited"
                       /\ exitStatus' = << PanicExitStatus >>
                       /\ steps' = Append(steps, Step("ReadDescriptor", FALSE))
                       /\ UNCHANGED <<err, stdout, gotDesc>>
                  ELSE /\ stdout' = Append(stdout,
                             << ColorAdd(Blue, "[GOT METRIC DESCRIPTOR]"), desc >>)
                       /\ gotDesc' = desc
                       /\ pc' = "returned"
                       /\ steps' = Append(steps, Step("ReadDescriptor", desc # <<>>))
                       /\ err' = IF desc # <<>> THEN NoErr
                                 ELSE << "get metric descriptor", "rpc error" >>
                       /\ exitStatus' = exitStatus
    /\ UNCHANGED <<projectID, monitoredResource, cancelled, clock, backend,
                   metricDesc, descReqs, seriesReqs>>

\* os.Interrupt while the handler of signal.NotifyContext is installed: ctx
\* is cancelled and the run goes on.
Interrupt ==
    /\ pc \in Running
    /\ ~ cancelled
    /\ cancelled' = TRUE
    /\ UNCHANGED <<projectID, monitoredResource, pc, err, exitStatus, clock,
                   backend, metricDesc, gotDesc, steps, effects, stdout,
                   descReqs, seriesReqs, getReqs>>

\* main: the error of runMain is logged and the process exits with 1; with
\* no error main returns and the process exits with 0.
MainExit ==
    /\ pc = "returned"
    /\ pc' = "exited"
    /\ exitStatus' = << ExitStatusOf(err) >>
    /\ UNCHANGED <<projectID, monitoredResource, err, cancelled, clock, backend,
                   metricDesc, gotDesc, steps, effects, stdout, descReqs,
                   seriesReqs, getReqs>>

Next ==
    \/ Validate
    \/ NewMetricClient
    \/ CreateHistogramDescriptor
    \/ CreateHistogramTimeSeries
    \/ Sleep
    \/ ReadAuditLogs
    \/ GetMetricDescriptor
    \/ Interrupt
    \/ MainExit

Spec == Init /\ [][Next]_vars

\* ------------------------------------------------------------------ claims

\* The six steps of a run, in the order runMain takes them.
StepOrder == << "Validate", "RegisterDescriptor", "WriteSeries", "Sleep",
                "ReadAuditLogs", "ReadDescriptor" >>

\* The outside effects of a run, in the order runMain causes them.
EffectOrder == << "NewMetricClient", "CreateMetricDescriptor", "CreateTimeSeries",
                  "Sleep", "gcloud", "GetMetricDescriptor" >>

StepRan(name) == \E i \in 1..Len(steps) : steps[i].step = name

StepFailed(name) == \E i \in 1..Len(steps) : steps[i].step = name /\ ~ steps[i].ok

NoEffectAmong(names) == \A i \in 1..Len(effects) : effects[i] \notin names

AllStepsOK ==
    /\ Len(steps) = Len(StepOrder)
    /\ \A i \in 1..Len(steps) : steps[i].ok

\* The text of the blocks printed so far.
Printed == { stdout[i][1][4] : i \in 1..Len(stdout) }

\* C1: the steps Validate, RegisterDescriptor, WriteSeries, Sleep,
\* ReadAuditLogs and ReadDescriptor run only in that order and each at most
\* once: the i-th step run is the i-th of the list and the step before it
\* completed successfully; the RPCs, the sleep and the subprocess happen in
\* the same order, each at most once.
C1_StepsInOrderOnce ==
    /\ Len(steps) <= Len(StepOrder)
    /\ \A i \in 1..Len(steps) :
         /\ steps[i].step = StepOrder[i]
         /\ i > 1 => steps[i-1].ok
    /\ Len(effects) <= Len(EffectOrder)
    /\ \A i \in 1..Len(effects) : effects[i] = EffectOrder[i]
    /\ Len(descReqs) <= 1 /\ Len(seriesReqs) <= 1 /\ Len(getReqs) <= 1

\* A run that took all six steps.
C1_Witness == pc = "exited" /\ Len(steps) = 6 /\ Len(effects) = 6

\* C2: with an empty project id the run fails at once with the
\* configuration error: no client is created, no RPC is sent, no subprocess
\* is started, and the process ends with status 1.
C2_EmptyProjectNoNetwork ==
    projectID = "" =>
        /\ effects = <<>>
        /\ descReqs = <<>> /\ seriesReqs = <<>> /\ getReqs = <<>>
        /\ stdout = <<>>
        /\ pc \in {"validate", "returned", "exited"}
        /\ pc # "validate" =>
             /\ steps = << [step |-> "Validate", ok |-> FALSE] >>
             /\ err = << "--project-id is unset" >>
        /\ pc = "exited" => exitStatus = << 1 >>

\* A run with an empty project id that ended.
C2_Witness == projectID = "" /\ pc = "exited" /\ err # <<>>

\* C3: for a token that is none of generic_task, k8s_container, none the
\* write step sends no CreateTimeSeries request, and once it ran it has
\* failed with the error that names the unrecognized value.
C3_UnknownTokenFailsBeforeRpc ==
    monitoredResource \notin {"generic_task", "k8s_container", "none"} =>
        /\ seriesReqs = <<>>
        /\ NoEffectAmong({"CreateTimeSeries"})
        /\ StepRan("WriteSeries") =>
             /\ StepFailed("WriteSeries")
             /\ err = << "create histogram time series",
                         "unknown monitored resource", monitoredResource >>

\* The write step ran with the token "invalid".
C3_Witness == monitoredResource = "invalid" /\ StepRan("WriteSeries")

\* C4 as stated: the exit status is 0 exactly when all steps completed
\* without error and 1 whenever a step failed, an abort by a marshaling
\* error included.
C4_ExitStatusOneOnAnyFailure ==
    pc = "exited" =>
        /\ exitStatus = << 0 >> <=> AllStepsOK
        /\ ~ AllStepsOK => exitStatus = << 1 >>

\* C4 as amended: the exit status is 0 exactly when all steps completed
\* without error, 1 when runMain returned an error, and 2 when a marshaling
\* error aborted the run by a panic; no run ends with 0 after a failed step.
C4_ExitStatusByOutcome ==
    pc = "exited" =>
        /\ exitStatus = << 0 >> <=> AllStepsOK
        /\ (~ AllStepsOK /\ err # <<>>) => exitStatus = << 1 >>
        /\ (~ AllStepsOK /\ err = <<>>) => exitStatus = << 2 >>
        /\ AllStepsOK => err = <<>>

\* A run that ended with status 1 after the subprocess failed.
C4_Witness == pc = "exited" /\ exitStatus = << 1 >> /\ StepFailed("ReadAuditLogs")

\* C5: after a failed step no later step runs: a failed step is the last of
\* the run; after a failed registration no CreateTimeSeries is sent, after a
\* failed write there is no sleep and no subprocess, after a failed
\* subprocess no GetMetricDescriptor is sent.
C5_FailureStopsRun ==
    /\ \A i \in 1..Len(steps) :
         ~ steps[i].ok => i = Len(steps) /\ pc \in {"returned", "exited"}
    /\ StepFailed("RegisterDescriptor") =>
         /\ NoEffectAmong({"CreateTimeSeries", "Sleep", "gcloud", "GetMetricDescriptor"})
         /\ seriesReqs = <<>> /\ getReqs = <<>>
    /\ StepFailed("WriteSeries") =>
         /\ NoEffectAmong({"Sleep", "gcloud", "GetMetricDescriptor"})
         /\ getReqs = <<>>
    /\ StepFailed("ReadAuditLogs") =>
         /\ NoEffectAmong({"GetMetricDescriptor"})
         /\ getReqs = <<>>

\* A run that ended after the subprocess failed.
C5_Witness == StepFailed("ReadAuditLogs") /\ pc = "exited" /\ err[1] = "read audit logs"

\* Whether a sequence of numbers is strictly increasing.
StrictlyIncreasing(q) == \A i \in 1..(Len(q) - 1) : q[i] < q[i+1]

\* C6: for every supported token the point of the series has one bucket
\* count more than boundaries (4 = 3 + 1), strictly increasing boundaries,
\* no range, and an interval that starts when it ends.
C6_PointShape ==
    \A i \in 1..Len(seriesReqs) :
      \A j \in 1..Len(seriesReqs[i].timeSeries) :
        \A k \in 1..Len(seriesReqs[i].timeSeries[j].points) :
          LET p == seriesReqs[i].timeSeries[j].points[k] IN
          /\ Len(p.value.bounds) = 3
          /\ Len(p.value.bucketCounts) = 4
          /\ Len(p.value.bucketCounts) = Len(p.value.bounds) + 1
          /\ StrictlyIncreasing(p.value.bounds)
          /\ p.value.range = <<>>
          /\ p.interval.startTime = p.interval.endTime

\* A series was sent for each kind of supported token (here k8s_container,
\* at a clock other than 0).
C6_Witness ==
    /\ Len(seriesReqs) = 1
    /\ monitoredResource = "k8s_container"
    /\ seriesReqs[1].timeSeries[1].points[1].interval.startTime > 0

\* The label keys of the two kinds of resource.
GenericTaskKeys == {"project_id", "location", "namespace", "job", "task_id"}

K8sContainerKeys == {"project_id", "location", "cluster_name", "namespace_name",
                     "pod_name", "container_name"}

\* C7: for every supported token the batch sent holds exactly one series
\* with exactly one point; the series has no resource exactly when the token
\* is none, and otherwise the resource of the token's type with the label
\* keys of that kind and the configured project id as project_id.
C7_BatchAndResource ==
    \A i \in 1..Len(seriesReqs) :
      LET batch == seriesReqs[i].timeSeries IN
      /\ monitoredResource \in {"generic_task", "k8s_container", "none"}
      /\ Len(batch) = 1
      /\ Len(batch[1].points) = 1
      /\ batch[1].resource = <<>> <=> monitoredResource = "none"
      /\ monitoredResource # "none" =>
           /\ Len(batch[1].resource) = 1
           /\ batch[1].resource[1].type = monitoredResource
           /\ batch[1].resource[1].labels.project_id = projectID
           /\ batch[1].resource[1].labels.location = "us-central1"
           /\ DOMAIN batch[1].resource[1].labels =
                IF monitoredResource = "generic_task" THEN GenericTaskKeys
                                                      ELSE K8sContainerKeys

\* The spec's scenario: project "demo", token none, the batch was sent.
C7_Witness ==
    projectID = "demo" /\ monitoredResource = "none" /\ Len(seriesReqs) = 1

\* C8: registration, for a non-empty project id, requests a descriptor whose
\* type is custom.googleapis.com/test/histogram, whose parent and name are
\* built from the project id, and whose allow-list holds generic_task and
\* k8s_container.
C8_DescriptorRequest ==
    \A i \in 1..Len(descReqs) :
      LET r == descReqs[i]
          allowed == { r.metricDescriptor.monitoredResourceTypes[k] :
                         k \in 1..Len(r.metricDescriptor.monitoredResourceTypes) }
      IN
      /\ projectID # ""
      /\ r.name = << "projects", projectID >>
      /\ r.metricDescriptor.name =
           << "projects", projectID, "metricDescriptors",
              "custom.googleapis.com/test/histogram" >>
      /\ r.metricDescriptor.type = "custom.googleapis.com/test/histogram"
      /\ {"generic_task", "k8s_container"} \subseteq allowed

\* Registration was requested for project p2.
C8_Witness == projectID = "p2" /\ Len(descReqs) = 1

C10_UnknownTokenFailsAtWriteTime ==
    (projectID # "" /\ monitoredResource \notin {"generic_task", "k8s_container", "none"}) =>
        /\ steps # <<>> => steps[1] = [step |-> "Validate", ok |-> TRUE]
        /\ seriesReqs = <<>> /\ getReqs = <<>>
        /\ NoEffectAmong({"CreateTimeSeries", "Sleep", "gcloud", "GetMetricDescriptor"})
        /\ "[CREATED TIME SERIES]" \notin Printed
        /\ pc \notin {"sleep", "readAuditLogs", "getDescriptor"}
        /\ (pc = "exited" /\ Len(steps) >= 2 /\ steps[2].ok) =>
             err = << "create histogram time series",
                      "unknown monitored resource", monitoredResource >>
        /\ (Len(err) = 3 /\ err[2] = "unknown monitored resource") =>
             /\ effects = << "NewMetricClient", "CreateMetricDescriptor" >>
             /\ Len(descReqs) = 1
             /\ steps[2] = [step |-> "RegisterDescriptor", ok |-> TRUE]
             /\ "[CREATED METRIC DESCRIPTOR]" \in Printed
             /\ descReqs[1].metricDescriptor \in backend

\* A run with project demo and token "invalid" that ended with the
\* unrecognized-token error.
C10_Witness ==
    /\ projectID = "demo"
    /\ monitoredResource = "invalid"
    /\ pc = "exited"
    /\ Len(err) = 3 /\ err[2] = "unknown monitored resource"

====
